---- MODULE Spec2Model ----
(***************************************************************************)
(* The playback controller of frontend/src/player_view.rs: the Player      *)
(* component (its PlayerState and its update handlers), the <audio>        *)
(* element it drives, the MediaSession it refreshes, the autosave timer    *)
(* chain, and the asynchronous tasks (spawn_local) it starts.              *)
(*                                                                         *)
(* Scheduling.  The program runs on one event loop.  A browser event (a    *)
(* click, a MediaSession action, a timer, the audio clock) is handled only *)
(* when no spawned task is ready and no message is queued: microtasks      *)
(* drain before the next event.  A task suspended on I/O sits in           *)
(* `awaiting`; when its I/O completes it is woken (appended to `ready`),   *)
(* and ready tasks run in FIFO order.  spawn_local never polls a future    *)
(* synchronously, so a task whose first poll touches the device (play)     *)
(* starts in `ready`.                                                      *)
(*                                                                         *)
(* Numbers.  An f64 is a record [k, v]: k = "fin" with the value v,        *)
(* "nan", or "inf" (+infinity).  Times are in seconds, playback rates in   *)
(* hundredths (1.0 is F(100)).  Option<f64>::None is NoneF.                *)
(***************************************************************************)
EXTENDS Integers, Sequences, FiniteSets, TLC

VARIABLES
    state,      \* Player.state: PlayerState
    audio,      \* the <audio id="player"> element
    session,    \* navigator.mediaSession
    selector,   \* value of the <select id="speed-selector">
    store,      \* the persisted PlayerState record (caching)
    msgs,       \* messages sent to the Player and not yet processed
    awaiting,   \* spawned tasks suspended on I/O
    ready,      \* spawned tasks ready to run, FIFO
    timers,     \* armed setTimeout registrations (their delays)
    crashed,    \* a panic or an uncaught exception ended the controller
    nextId,     \* history: id the next article resolution gets (spawn order); saves count down
    nEvents,    \* user and platform events handled so far
    nSaveState, \* SaveState messages processed so far
    rearms,     \* history: the delay of each run_after_delay call issued by SaveState processing
    resolved,   \* history: the successful article resolutions, in completion order
    savedAt,    \* history: per save in flight, PlayerState right after its SaveState was processed
    focus,      \* history: the last PlayHandle/SetState (or, for the device helpers on
                \* their own, the last jump or seek), while nothing else has happened
    label,      \* the "Now Playing" text of the view as last rendered
    rejected    \* history: some timer registration was rejected

vars == <<state, audio, session, selector, store, msgs, awaiting, ready, timers,
          crashed, nextId, nEvents, nSaveState, rearms, resolved, savedAt, focus,
          label, rejected>>

----------------------------------------------------------------------------
(* Bounds of the model *)

\* user and platform events (clicks, media actions, clock steps) in one run
MaxEvents == 2
\* autosave timer firings in one run
MaxTicks == 2
\* seconds the audio clock advances in one step while playing
AdvanceStep == 5
\* seconds between two keyframes of an article's audio
KeyframeEvery == 10

(* Program constants *)

PLAYER_STATE_SAVE_FREQ == 10000
JUMP_SIZE == 10

----------------------------------------------------------------------------
(* f64 *)

F(v) == [k |-> "fin", v |-> v]
NaN == [k |-> "nan", v |-> 0]
Inf == [k |-> "inf", v |-> 0]
NoneF == [k |-> "none", v |-> 0]

is_finite(x) == x.k = "fin"

\* x >= 0.0 (false for NaN)
ge_zero(x) == x.k = "inf" \/ (x.k = "fin" /\ x.v >= 0)

\* f64::min: a NaN operand is ignored
f64_min(a, b) ==
    IF a.k = "nan" THEN b
    ELSE IF b.k = "nan" THEN a
    ELSE IF a.k = "inf" THEN b
    ELSE IF b.k = "inf" THEN a
    ELSE IF a.v <= b.v THEN a ELSE b

\* f64::max: a NaN operand is ignored
f64_max(a, b) ==
    IF a.k = "nan" THEN b
    ELSE IF b.k = "nan" THEN a
    ELSE IF a.k = "inf" THEN a
    ELSE IF b.k = "inf" THEN b
    ELSE IF a.v >= b.v THEN a ELSE b

f64_add(a, b) ==
    IF a.k = "nan" \/ b.k = "nan" THEN NaN
    ELSE IF a.k = "inf" \/ b.k = "inf" THEN Inf
    ELSE F(a.v + b.v)

\* Option<f64>::unwrap_or
unwrap_or(x, d) == IF x.k = "none" THEN d ELSE x

----------------------------------------------------------------------------
(* Articles and stored states *)

None == "none"
Handles == {"a", "b"}

\* length in seconds of the audio of the article a handle names
duration_of(h) ==
    CASE h = "a" -> 15
      [] h = "b" -> 10
      [] OTHER   -> 100

DefaultState == [now_playing |-> None, elapsed |-> NoneF, playback_speed |-> F(100)]

\* records an earlier session can have saved (every save sets elapsed)
SavedStates ==
    { [now_playing |-> "a", elapsed |-> F(5), playback_speed |-> F(150)],
      [now_playing |-> None, elapsed |-> F(0), playback_speed |-> F(100)] }

NoStore == [some |-> FALSE, val |-> DefaultState]
Stored(s) == [some |-> TRUE, val |-> s]

----------------------------------------------------------------------------
(* The <audio> element (HTMLMediaElement) *)

InitAudio ==
    [src |-> None, current_time |-> F(0), duration |-> NaN,
     playback_rate |-> F(100), default_playback_rate |-> F(100), paused |-> TRUE]

\* HtmlAudioElement::pause
elem_pause(a) == [a EXCEPT !.paused = TRUE]

\* HtmlAudioElement::play, accepted by the device
elem_play(a) == [a EXCEPT !.paused = FALSE]

\* HtmlAudioElement::set_current_time with a finite time: a seek, clamped to the
\* resource; with no resource the time becomes the default playback start position,
\* which current_time() then reports
elem_set_current_time(a, t) ==
    IF a.src = None
    THEN [a EXCEPT !.current_time = t]
    ELSE [a EXCEPT !.current_time = f64_max(F(0), f64_min(a.duration, t))]

\* the keyframe at or before t, where an approximate seek can land
keyframe_before(t) == F((t.v \div KeyframeEvery) * KeyframeEvery)

\* HtmlAudioElement::fast_seek on an element that has it: an approximate seek, which
\* lands on t or on the keyframe before it; without a resource the seek is dropped
elem_fast_seek(a, t, exact) ==
    IF a.src = None
    THEN a
    ELSE [a EXCEPT !.current_time =
             f64_max(F(0), f64_min(a.duration, IF exact THEN t ELSE keyframe_before(t)))]

elem_set_playback_rate(a, r) == [a EXCEPT !.playback_rate = r]

elem_set_default_playback_rate(a, r) == [a EXCEPT !.default_playback_rate = r]

\* HtmlAudioElement::set_src: the media element load algorithm. The element is
\* paused, playbackRate is reset to defaultPlaybackRate, the position is reset to 0
\* (or, on an element that had no resource, to the default playback start position),
\* and the duration becomes that of the new resource.
elem_set_src(a, h) ==
    [a EXCEPT !.src = h,
              !.paused = TRUE,
              !.playback_rate = a.default_playback_rate,
              !.duration = F(duration_of(h)),
              !.current_time = IF a.src = None
                               THEN f64_max(F(0), f64_min(F(duration_of(h)), a.current_time))
                               ELSE F(0)]

----------------------------------------------------------------------------
(* navigator.mediaSession *)

NoPositionState == [set |-> FALSE, position |-> F(0), duration |-> F(0), rate |-> F(0)]

InitSession == [metadata |-> None, position_state |-> NoPositionState]

\* a guard that only asks for finite readouts
is_configured_finite_only(pos, dur, rate) ==
    is_finite(pos) /\ is_finite(dur) /\ is_finite(rate)

\* the guard of update_playback_state: every readout is in [0, inf)
is_configured(pos, dur, rate) ==
    /\ is_finite(pos) /\ ge_zero(pos)
    /\ is_finite(dur) /\ ge_zero(dur)
    /\ is_finite(rate) /\ ge_zero(rate)

\* update_playback_state: push position, duration and rate to the MediaSession
update_playback_state(a, s) ==
    IF ~is_configured(a.current_time, a.duration, a.playback_rate)
    THEN s
    ELSE [s EXCEPT !.position_state =
             [set |-> TRUE, position |-> a.current_time,
              duration |-> a.duration, rate |-> a.playback_rate]]

----------------------------------------------------------------------------
(* Helpers of player_view.rs that act on the device *)

\* a jump_offset that subtracts the offset
jump_offset_subtracts(a, offset) ==
    LET new_time == f64_max(F(0), f64_min(a.duration,
                        f64_add(a.current_time, F(0 - offset.v))))
    IN  elem_set_current_time(a, new_time)

\* jump_offset: the new time is min(duration, current_time + offset), then max(0, .)
jump_offset(a, offset) ==
    LET new_time == f64_max(F(0), f64_min(a.duration, f64_add(a.current_time, offset)))
    IN  elem_set_current_time(a, new_time)

\* a set_audio_source that pauses and never hands the new source to the element
set_audio_source_keeps_src(a, h) == elem_pause(a)

\* set_audio_source, the device part: pause, then set_src
set_audio_source(a, h) == elem_set_src(elem_pause(a), h)

\* set_audio_source, the MediaSession part: the article's title as metadata
set_metadata(s, h) == [s EXCEPT !.metadata = h]

\* str::parse::<f64> on the selector's value
parse_f64(v) ==
    CASE v = "0.5" -> [ok |-> TRUE, val |-> F(50)]
      [] v = "1"   -> [ok |-> TRUE, val |-> F(100)]
      [] v = "1.5" -> [ok |-> TRUE, val |-> F(150)]
      [] v = "0"   -> [ok |-> TRUE, val |-> F(0)]
      [] v = "-1"  -> [ok |-> TRUE, val |-> F(-100)]
      [] v = "NaN" -> [ok |-> TRUE, val |-> NaN]
      [] v = "inf" -> [ok |-> TRUE, val |-> Inf]
      [] OTHER     -> [ok |-> FALSE, val |-> F(0)]

\* update_playback_speed, the selected rate: parse().unwrap_or(1.0)
selected_rate(v) == IF parse_f64(v).ok THEN parse_f64(v).val ELSE F(100)

\* whether the element takes a playback rate: a non-finite one is a TypeError, a
\* negative one is refused by the devices that do not play backwards
rate_accepted(r, plays_backwards) == is_finite(r) /\ (ge_zero(r) \/ plays_backwards)

\* a run_after_delay that registers nothing
run_after_delay_unarmed(ts, secs, registered) == ts

\* a run_after_delay that registers the callback twice
run_after_delay_twice(ts, secs, registered) ==
    IF registered THEN Append(Append(ts, secs), secs) ELSE ts

\* a run_after_delay that takes its argument for seconds, as its name for it says
run_after_delay_in_seconds(ts, secs, registered) ==
    IF registered THEN Append(ts, secs * 1000) ELSE ts

\* run_after_delay: the timer is armed unless the registration is rejected
run_after_delay(ts, secs, registered) == IF registered THEN Append(ts, secs) ELSE ts

\* a save task that reads the Player's state when it runs, not the clone
saved_record_live(t) == state

\* the record a save task hands to the store: the clone taken by SaveState
saved_record(t) == t.snap

----------------------------------------------------------------------------
(* Messages, tasks *)

Msg(type, handle, st, elapsed, tag) ==
    [type |-> type, handle |-> handle, state |-> st, elapsed |-> elapsed, tag |-> tag]

\* tag is history: for a save, the source installed when the elapsed time was read;
\* for a play task, who spawned it
Task(fn, id, handle, snap, tag) ==
    [fn |-> fn, id |-> id, handle |-> handle, snap |-> snap, res |-> "pending", tag |-> tag]

\* play(): spawn_local of the task that calls the element's play()
play(q, who) == Append(q, Task("play", 0, None, DefaultState, who))

\* a set_audio_source_by_handle that calls play_article, as play_article_handle does
restore_then_plays(q) == play(q, "play_article")

\* set_audio_source_by_handle, Ok(article): set_audio_source and nothing more
restore_then(q) == q

\* Player::view, the "Now Playing" text: the handle's name, or the empty string
view(s) == s.now_playing

\* the view after update() returned should_render: rendered again only on true
rendered(l, s, should_render) == IF should_render THEN view(s) ELSE l

\* a PlayHandle that leaves now_playing for the resolution to set
record_intent_later(s, h) == s

\* PlayHandle: self.state.now_playing = Some(handle)
record_intent(s, h) == [s EXCEPT !.now_playing = h]

\* a SetState that keeps the now_playing a PlayHandle has already set
set_state_merge(old, s) ==
    IF old.now_playing = None THEN s ELSE [s EXCEPT !.now_playing = old.now_playing]

\* SetState: self.state = state
set_state(old, s) == s

\* a resolution that confirms its handle as now_playing when it completes
resolved_state_confirms(s, h) == [s EXCEPT !.now_playing = h]

\* PlayerState after a resolution completes: the spawned block owns a clone of the
\* handle and nothing of the Player
resolved_state(s, h) == s

\* a timer that stays armed after it fired (setInterval)
timer_fired_interval(ts) == ts

\* the registrations left after the oldest timer fired: setTimeout fires once
timer_fired(ts) == Tail(ts)

\* no seek details under observation
NoArg == [fastSeek |-> "absent", seekTime |-> NoneF, seekOffset |-> NoneF]

NoFocus == [id |-> 0, kind |-> "none", handle |-> None, pre |-> InitAudio, done |-> "none",
            arg |-> NoArg]

\* nothing ready, nothing queued: the event loop takes the next browser event
Idle == ~crashed /\ msgs = <<>> /\ ready = <<>>

\* a user or platform event is taken
Event == Idle /\ nEvents < MaxEvents /\ nEvents' = nEvents + 1

Resolutions == {"play_article_handle", "set_audio_source_by_handle"}

----------------------------------------------------------------------------
(* Player::create *)

Init ==
    /\ state = DefaultState
    /\ audio = InitAudio
    /\ session = InitSession
    /\ selector = "1"
    /\ store \in {NoStore} \cup {Stored(s) : s \in SavedStates}
    /\ msgs = <<>>
    /\ awaiting = {Task("build_from_save", 1, None, DefaultState, "create")}
    /\ ready = <<>>
    /\ \E registered \in BOOLEAN :
          /\ timers = run_after_delay(<<>>, PLAYER_STATE_SAVE_FREQ, registered)
          /\ rejected = ~registered
    /\ crashed = FALSE
    /\ nextId = 2
    /\ nEvents = 0
    /\ nSaveState = 0
    /\ rearms = <<>>
    /\ resolved = <<>>
    /\ savedAt = {}
    /\ focus = NoFocus
    /\ label = view(DefaultState)

----------------------------------------------------------------------------
(* Browser events: the user, the platform's media controls, the timer, the clock *)

\* the queue view's "play" button: link.send_message(PlayHandle(h))
UserPlay(h) ==
    /\ Event
    /\ msgs' = Append(msgs, Msg("PlayHandle", h, DefaultState, NoneF, "user"))
    /\ focus' = NoFocus
    /\ UNCHANGED <<label, rejected, state, audio, session, selector, store, awaiting, ready, timers,
                   crashed, nextId, nSaveState, rearms, resolved, savedAt>>

\* the jump buttons of Player::view
UserJump(type) ==
    /\ Event
    /\ msgs' = Append(msgs, Msg(type, None, DefaultState, NoneF, "user"))
    /\ focus' = NoFocus
    /\ UNCHANGED <<label, rejected, state, audio, session, selector, store, awaiting, ready, timers,
                   crashed, nextId, nSaveState, rearms, resolved, savedAt>>

\* onchange of the speed selector: the element holds the new value
UserSelect(v) ==
    /\ Event
    /\ selector' = v
    /\ msgs' = Append(msgs, Msg("UpdatePlaybackSpeed", None, DefaultState, NoneF, "user"))
    /\ focus' = NoFocus
    /\ UNCHANGED <<label, rejected, state, audio, session, store, awaiting, ready, timers,
                   crashed, nextId, nSaveState, rearms, resolved, savedAt>>

\* MediaSession "play": play() spawns the task that calls the element's play()
ActionPlay ==
    /\ Event
    /\ ready' = play(ready, "action")
    /\ focus' = NoFocus
    /\ UNCHANGED <<label, rejected, state, audio, session, selector, store, msgs, awaiting, timers,
                   crashed, nextId, nSaveState, rearms, resolved, savedAt>>

\* MediaSession "pause": pause()
ActionPause ==
    /\ Event
    /\ audio' = elem_pause(audio)
    /\ focus' = NoFocus
    /\ UNCHANGED <<label, rejected, state, session, selector, store, msgs, awaiting, ready, timers,
                   crashed, nextId, nSaveState, rearms, resolved, savedAt>>

\* jump_forward / jump_backward: jump_offset, then update_playback_state
jump(a, s, offset) ==
    LET a2 == jump_offset(a, offset)
    IN  [audio |-> a2, session |-> update_playback_state(a2, s)]

\* MediaSession "seekforward" / "seekbackward"
ActionJump(offset) ==
    /\ Event
    /\ audio' = jump(audio, session, offset).audio
    /\ session' = jump(audio, session, offset).session
    /\ focus' = NoFocus
    /\ UNCHANGED <<label, rejected, state, selector, store, msgs, awaiting, ready, timers,
                   crashed, nextId, nSaveState, rearms, resolved, savedAt>>

\* what the platform passes to "seekto"
SeekDetails ==
    [fastSeek : {"absent", "true", "false"},
     seekTime : {NoneF, F(5)},
     seekOffset : {NoneF, F(-10)}]

\* a seek_to that takes fast_seek whenever the platform names fastSeek at all
seek_call_fast_if_named(d) ==
    IF d.seekTime # NoneF
    THEN [method |-> IF d.fastSeek # "absent" THEN "fast_seek" ELSE "set_current_time",
          time |-> d.seekTime]
    ELSE IF d.seekOffset # NoneF
         THEN [method |-> "jump_offset", time |-> d.seekOffset]
         ELSE [method |-> "none", time |-> NoneF]

\* seek_to, the call it makes on the element: the time when present (fast_seek only
\* if fastSeek is Some(true)), else the offset when present, else nothing
seek_call(d) ==
    IF d.seekTime # NoneF
    THEN [method |-> IF d.fastSeek = "true" THEN "fast_seek" ELSE "set_current_time",
          time |-> d.seekTime]
    ELSE IF d.seekOffset # NoneF
         THEN [method |-> "jump_offset", time |-> d.seekOffset]
         ELSE [method |-> "none", time |-> NoneF]

\* seek_to on an element that has every method it calls
seek_to(a, d, exact) ==
    LET c == seek_call(d) IN
    CASE c.method = "fast_seek"        -> elem_fast_seek(a, c.time, exact)
      [] c.method = "set_current_time" -> elem_set_current_time(a, c.time)
      [] c.method = "jump_offset"      -> jump_offset(a, c.time)
      [] OTHER                         -> a

\* fast_seek(time).unwrap() panics where the element has no fastSeek
seek_to_panics(d, has_fast_seek) == seek_call(d).method = "fast_seek" /\ ~has_fast_seek

\* MediaSession "seekto"
ActionSeekTo(d, has_fast_seek, exact) ==
    /\ Event
    /\ IF seek_to_panics(d, has_fast_seek)
       THEN /\ crashed' = TRUE
            /\ UNCHANGED audio
       ELSE /\ audio' = seek_to(audio, d, exact)
            /\ UNCHANGED crashed
    /\ focus' = NoFocus
    /\ UNCHANGED <<label, rejected, state, session, selector, store, msgs, awaiting, ready, timers,
                   nextId, nSaveState, rearms, resolved, savedAt>>

\* the autosave timer fires: trigger_save reads current_time and sends SaveState
TimerFire ==
    /\ Idle
    /\ timers # <<>>
    /\ nSaveState < MaxTicks
    /\ timers' = timer_fired(timers)
    /\ msgs' = Append(msgs, Msg("SaveState", None, DefaultState, audio.current_time, audio.src))
    /\ focus' = NoFocus
    /\ UNCHANGED <<label, rejected, state, audio, session, selector, store, awaiting, ready,
                   crashed, nextId, nEvents, nSaveState, rearms, resolved, savedAt>>

\* the audio clock: a playing element advances, up to the end of its resource
Advance ==
    /\ Event
    /\ audio.src # None
    /\ ~audio.paused
    /\ audio.playback_rate.v > 0
    /\ audio.current_time.v < audio.duration.v
    /\ audio' = [audio EXCEPT !.current_time =
                    f64_min(audio.duration, f64_add(audio.current_time, F(AdvanceStep)))]
    /\ focus' = NoFocus
    /\ UNCHANGED <<label, rejected, state, session, selector, store, msgs, awaiting, ready, timers,
                   crashed, nextId, nSaveState, rearms, resolved, savedAt>>

----------------------------------------------------------------------------
(* Player::update, one action per message *)

Processing(type) == ~crashed /\ msgs # <<>> /\ Head(msgs).type = type

\* PlayHandle: play_article_handle (pause, spawn the resolution), then now_playing
UpdatePlayHandle ==
    /\ Processing("PlayHandle")
    /\ LET h == Head(msgs).handle IN
       /\ audio' = elem_pause(audio)
       /\ awaiting' = awaiting \cup {Task("play_article_handle", nextId, h, DefaultState, "update")}
       /\ state' = record_intent(state, h)
       /\ label' = rendered(label, record_intent(state, h), FALSE)
       /\ focus' = [id |-> nextId, kind |-> "play", handle |-> h, pre |-> audio,
                    done |-> "pending", arg |-> NoArg]
    /\ nextId' = nextId + 1
    /\ msgs' = Tail(msgs)
    /\ UNCHANGED <<rejected, session, selector, store, ready, timers, crashed, nEvents,
                   nSaveState, rearms, resolved, savedAt>>

\* JumpForward / JumpBackward: jump_forward() / jump_backward()
UpdateJump(type, offset) ==
    /\ Processing(type)
    /\ audio' = jump(audio, session, offset).audio
    /\ session' = jump(audio, session, offset).session
    /\ msgs' = Tail(msgs)
    /\ label' = rendered(label, state, FALSE)
    /\ focus' = NoFocus
    /\ UNCHANGED <<rejected, state, selector, store, awaiting, ready, timers, crashed, nextId,
                   nEvents, nSaveState, rearms, resolved, savedAt>>

\* UpdatePlaybackSpeed: update_playback_speed(), then playback_speed = rate. A rate
\* the element refuses is an exception out of set_playback_rate: nothing is stored.
UpdatePlaybackSpeed(plays_backwards) ==
    /\ Processing("UpdatePlaybackSpeed")
    /\ LET rate == selected_rate(selector) IN
       IF rate_accepted(rate, plays_backwards)
       THEN LET a2 == elem_set_default_playback_rate(elem_set_playback_rate(audio, rate), rate)
            IN  /\ audio' = a2
                /\ session' = update_playback_state(a2, session)
                /\ state' = [state EXCEPT !.playback_speed = rate]
                /\ label' = rendered(label, [state EXCEPT !.playback_speed = rate], FALSE)
                /\ UNCHANGED crashed
       ELSE /\ crashed' = TRUE
            /\ UNCHANGED <<audio, session, state, label>>
    /\ msgs' = Tail(msgs)
    /\ focus' = NoFocus
    /\ UNCHANGED <<rejected, selector, store, awaiting, ready, timers, nextId, nEvents,
                   nSaveState, rearms, resolved, savedAt>>

\* SetState: the state is replaced; with a now_playing handle the resolution is
\* spawned, then set_current_time(elapsed or 0) and set_playback_speed(playback_speed)
\* act on the element as it is now
UpdateSetState(plays_backwards) ==
    /\ Processing("SetState")
    /\ LET s == Head(msgs).state IN
       /\ state' = set_state(state, s)
       /\ label' = rendered(label, set_state(state, s), TRUE)
       /\ IF s.now_playing = None
          THEN /\ UNCHANGED <<audio, awaiting, nextId, crashed>>
               /\ focus' = NoFocus
          ELSE /\ awaiting' = awaiting \cup
                    {Task("set_audio_source_by_handle", nextId, s.now_playing, DefaultState, "update")}
               /\ nextId' = nextId + 1
               /\ focus' = [id |-> nextId, kind |-> "set", handle |-> s.now_playing,
                            pre |-> audio, done |-> "pending", arg |-> NoArg]
               /\ LET a2 == elem_set_current_time(audio, unwrap_or(s.elapsed, F(0))) IN
                  IF rate_accepted(s.playback_speed, plays_backwards)
                  THEN /\ audio' = elem_set_playback_rate(a2, s.playback_speed)
                       /\ UNCHANGED crashed
                  ELSE /\ audio' = a2
                       /\ crashed' = TRUE
    /\ msgs' = Tail(msgs)
    /\ UNCHANGED <<rejected, session, selector, store, ready, timers, nEvents, nSaveState,
                   rearms, resolved, savedAt>>

\* SaveState: elapsed is stored, a clone of the state goes to the save task, and the
\* timer is armed again
UpdateSaveState(registered) ==
    /\ Processing("SaveState")
    /\ LET s2 == [state EXCEPT !.elapsed = Head(msgs).elapsed] IN
       /\ state' = s2
       /\ awaiting' = awaiting \cup {Task("save", -(nSaveState + 1), None, s2, Head(msgs).tag)}
       /\ savedAt' = savedAt \cup {[id |-> -(nSaveState + 1), state |-> s2]}
    /\ timers' = run_after_delay(timers, PLAYER_STATE_SAVE_FREQ, registered)
    /\ rejected' = (rejected \/ ~registered)
    /\ rearms' = Append(rearms, PLAYER_STATE_SAVE_FREQ)
    /\ nSaveState' = nSaveState + 1
    /\ msgs' = Tail(msgs)
    /\ label' = rendered(label, state, FALSE)
    /\ focus' = NoFocus
    /\ UNCHANGED <<audio, session, selector, store, ready, crashed, nextId, nEvents,
                   resolved>>

----------------------------------------------------------------------------
(* I/O completions: the awaited future of a suspended task resolves *)

\* send_message runs the scheduler at once (it is never called from inside update),
\* so nothing completes between a message being sent and being processed
Quiet == ~crashed /\ msgs = <<>>

KeepFocus(t) == IF t.id = focus.id THEN focus ELSE NoFocus

\* caching::load_article resolves, with the article or with an error
WakeResolution(t, ok) ==
    /\ Quiet
    /\ t \in awaiting
    /\ t.fn \in Resolutions
    /\ awaiting' = awaiting \ {t}
    /\ ready' = Append(ready, [t EXCEPT !.res = IF ok THEN "ok" ELSE "err"])
    /\ focus' = KeepFocus(t)
    /\ UNCHANGED <<label, rejected, state, audio, session, selector, store, msgs, timers, crashed,
                   nextId, nEvents, nSaveState, rearms, resolved, savedAt>>

\* caching::get_player_state resolves: the stored record, or an error
WakeLoadState(t, ok) ==
    /\ Quiet
    /\ t \in awaiting
    /\ t.fn = "build_from_save"
    /\ ok => store.some
    /\ awaiting' = awaiting \ {t}
    /\ ready' = Append(ready, [t EXCEPT !.res = IF ok THEN "ok" ELSE "err",
                                        !.snap = store.val])
    /\ focus' = NoFocus
    /\ UNCHANGED <<label, rejected, state, audio, session, selector, store, msgs, timers, crashed,
                   nextId, nEvents, nSaveState, rearms, resolved, savedAt>>

\* caching::save_player_state resolves: the record is written, or an error is logged
SaveDone(t, ok) ==
    /\ Quiet
    /\ t \in awaiting
    /\ t.fn = "save"
    /\ awaiting' = awaiting \ {t}
    /\ store' = IF ok THEN Stored(saved_record(t)) ELSE store
    /\ savedAt' = {e \in savedAt : e.id # t.id}
    /\ focus' = NoFocus
    /\ UNCHANGED <<label, rejected, state, audio, session, selector, msgs, ready, timers, crashed,
                   nextId, nEvents, nSaveState, rearms, resolved>>

----------------------------------------------------------------------------
(* Ready tasks run, first in first out *)

Running(fn, res) ==
    ~crashed /\ msgs = <<>> /\ ready # <<>> /\ Head(ready).fn = fn /\ Head(ready).res = res

FocusDone(t, r) == IF t.id = focus.id THEN [focus EXCEPT !.done = r] ELSE NoFocus

\* play_article_handle, Ok(article): play_article = set_audio_source, then play()
RunPlayArticle ==
    /\ Running("play_article_handle", "ok")
    /\ LET t == Head(ready) IN
       /\ audio' = set_audio_source(audio, t.handle)
       /\ session' = set_metadata(session, t.handle)
       /\ ready' = play(Tail(ready), "play_article")
       /\ resolved' = Append(resolved, [id |-> t.id, kind |-> "play", handle |-> t.handle])
       /\ state' = resolved_state(state, t.handle)
       /\ focus' = FocusDone(t, "ok")
    /\ UNCHANGED <<label, rejected, selector, store, msgs, awaiting, timers, crashed, nextId,
                   nEvents, nSaveState, rearms, savedAt>>

\* set_audio_source_by_handle, Ok(article): set_audio_source
RunSetSource ==
    /\ Running("set_audio_source_by_handle", "ok")
    /\ LET t == Head(ready) IN
       /\ audio' = set_audio_source(audio, t.handle)
       /\ session' = set_metadata(session, t.handle)
       /\ resolved' = Append(resolved, [id |-> t.id, kind |-> "set", handle |-> t.handle])
       /\ state' = resolved_state(state, t.handle)
       /\ focus' = FocusDone(t, "ok")
    /\ ready' = restore_then(Tail(ready))
    /\ UNCHANGED <<label, rejected, selector, store, msgs, awaiting, timers, crashed, nextId,
                   nEvents, nSaveState, rearms, savedAt>>

\* either resolution, Err(e): the error is logged
RunResolutionFailed(fn) ==
    /\ Running(fn, "err")
    /\ ready' = Tail(ready)
    /\ focus' = FocusDone(Head(ready), "err")
    /\ UNCHANGED <<label, rejected, state, audio, session, selector, store, msgs, awaiting, timers,
                   crashed, nextId, nEvents, nSaveState, rearms, resolved, savedAt>>

\* build_from_save, Ok(state): send_message(SetState(state))
RunBuildFromSave ==
    /\ Running("build_from_save", "ok")
    /\ msgs' = Append(msgs, Msg("SetState", None, Head(ready).snap, NoneF, "build_from_save"))
    /\ ready' = Tail(ready)
    /\ focus' = NoFocus
    /\ UNCHANGED <<label, rejected, state, audio, session, selector, store, awaiting, timers, crashed,
                   nextId, nEvents, nSaveState, rearms, resolved, savedAt>>

\* build_from_save, Err: nothing is sent
RunBuildFailed ==
    /\ Running("build_from_save", "err")
    /\ ready' = Tail(ready)
    /\ focus' = NoFocus
    /\ UNCHANGED <<label, rejected, state, audio, session, selector, store, msgs, awaiting, timers,
                   crashed, nextId, nEvents, nSaveState, rearms, resolved, savedAt>>

\* the task of play(): the element's play(), which starts playback or is rejected
\* (the rejection is logged)
RunPlay(started) ==
    /\ Running("play", "pending")
    /\ audio' = IF started THEN elem_play(audio) ELSE audio
    /\ ready' = Tail(ready)
    /\ focus' = NoFocus
    /\ UNCHANGED <<label, rejected, state, session, selector, store, msgs, awaiting, timers, crashed,
                   nextId, nEvents, nSaveState, rearms, resolved, savedAt>>

----------------------------------------------------------------------------
(* The specification *)

SelectorValues == {"1.5", "abc", "0", "-1", "NaN"}

Next ==
    \/ \E h \in Handles : UserPlay(h)
    \/ \E type \in {"JumpForward", "JumpBackward"} : UserJump(type)
    \/ \E v \in SelectorValues : UserSelect(v)
    \/ ActionPlay
    \/ ActionPause
    \/ \E offset \in {F(JUMP_SIZE), F(-JUMP_SIZE)} : ActionJump(offset)
    \/ \E d \in SeekDetails, has_fast_seek \in BOOLEAN, exact \in BOOLEAN :
          ActionSeekTo(d, has_fast_seek, exact)
    \/ TimerFire
    \/ Advance
    \/ UpdatePlayHandle
    \/ UpdateJump("JumpForward", F(JUMP_SIZE))
    \/ UpdateJump("JumpBackward", F(-JUMP_SIZE))
    \/ \E plays_backwards \in BOOLEAN : UpdatePlaybackSpeed(plays_backwards)
    \/ \E plays_backwards \in BOOLEAN : UpdateSetState(plays_backwards)
    \/ \E registered \in BOOLEAN : UpdateSaveState(registered)
    \/ \E t \in awaiting, ok \in BOOLEAN : WakeResolution(t, ok)
    \/ \E t \in awaiting, ok \in BOOLEAN : WakeLoadState(t, ok)
    \/ \E t \in awaiting, ok \in BOOLEAN : SaveDone(t, ok)
    \/ RunPlayArticle
    \/ RunSetSource
    \/ \E fn \in Resolutions : RunResolutionFailed(fn)
    \/ RunBuildFromSave
    \/ RunBuildFailed
    \/ \E started \in BOOLEAN : RunPlay(started)

Spec == Init /\ [][Next]_vars

----------------------------------------------------------------------------
(* The device helpers on their own: jump_forward, jump_backward and seek_to applied
   once to an element that holds an article, at any position of it *)

DeviceHandles == {"a", "b", "c"}

\* what the platform can pass to "seekto", times and offsets inside and outside the
\* article
DeviceSeekDetails ==
    [fastSeek : {"absent", "true", "false"},
     seekTime : {NoneF, F(5), F(95), F(200)},
     seekOffset : {NoneF, F(-10), F(7), F(200)}]

DeviceInit ==
    /\ \E h \in DeviceHandles : \E p \in 0..duration_of(h) :
          audio = [elem_set_src(InitAudio, h) EXCEPT !.current_time = F(p)]
    /\ state = DefaultState
    /\ session = InitSession
    /\ selector = "1"
    /\ store = NoStore
    /\ msgs = <<>>
    /\ awaiting = {}
    /\ ready = <<>>
    /\ timers = run_after_delay(<<>>, PLAYER_STATE_SAVE_FREQ, TRUE)
    /\ rejected = FALSE
    /\ crashed = FALSE
    /\ nextId = 2
    /\ nEvents = 0
    /\ nSaveState = 0
    /\ rearms = <<>>
    /\ resolved = <<>>
    /\ savedAt = {}
    /\ focus = NoFocus
    /\ label = view(DefaultState)

\* jump_forward / jump_backward, observed
JumpStep(offset) ==
    /\ focus = NoFocus
    /\ ~crashed
    /\ audio' = jump(audio, session, offset).audio
    /\ session' = jump(audio, session, offset).session
    /\ focus' = [NoFocus EXCEPT !.kind = "jump", !.pre = audio, !.done = "jump_offset",
                                 !.arg = [NoArg EXCEPT !.seekOffset = offset]]
    /\ UNCHANGED <<state, selector, store, msgs, awaiting, ready, timers, crashed, nextId,
                   nEvents, nSaveState, rearms, resolved, savedAt, label, rejected>>

\* seek_to, observed: the method it calls is recorded, and the call panics on an
\* element without fastSeek
SeekStep(d, has_fast_seek, exact) ==
    /\ focus = NoFocus
    /\ ~crashed
    /\ IF seek_to_panics(d, has_fast_seek)
       THEN /\ crashed' = TRUE
            /\ UNCHANGED audio
       ELSE /\ audio' = seek_to(audio, d, exact)
            /\ UNCHANGED crashed
    /\ focus' = [NoFocus EXCEPT !.kind = "seek", !.pre = audio,
                                 !.done = seek_call(d).method, !.arg = d]
    /\ UNCHANGED <<state, session, selector, store, msgs, awaiting, ready, timers, nextId,
                   nEvents, nSaveState, rearms, resolved, savedAt, label, rejected>>

DeviceNext ==
    \/ \E offset \in {F(JUMP_SIZE), F(-JUMP_SIZE)} : JumpStep(offset)
    \/ \E d \in DeviceSeekDetails, has_fast_seek \in BOOLEAN, exact \in BOOLEAN :
          SeekStep(d, has_fast_seek, exact)

SpecDevice == DeviceInit /\ [][DeviceNext]_vars

----------------------------------------------------------------------------
(* Properties *)

Last(q) == q[Len(q)]

\* a step that runs the ready task at the head of the queue
Ran(fn) == ready # <<>> /\ Head(ready).fn = fn /\ ~crashed /\ msgs = <<>>
           /\ ready' # ready /\ Len(ready') >= Len(ready) - 1

\* C1: a PlayHandle resolution that completes is never cancelled or ignored: the
\* device holds the audio of the resolution that completed last, whatever
\* now_playing says. The step that completes it installs its audio, leaves
\* PlayerState alone and queues the play task, and the play task, unless the device
\* rejects it, leaves that source playing. So with PlayHandle(A), PlayHandle(B) and
\* A's resolution completing after B's, the device plays A while now_playing is B.
C1_StaleResolutionStillApplies ==
    /\ [](resolved # <<>> => audio.src = Last(resolved).handle)
    /\ [][(resolved' # resolved /\ Last(resolved').kind = "play") =>
             /\ audio'.src = Last(resolved').handle
             /\ state' = state
             /\ ready' # <<>> /\ Last(ready').fn = "play"]_vars
    /\ [][Ran("play") => /\ audio'.src = audio.src
                          /\ (~audio'.paused \/ audio' = audio)]_vars

\* C1 witness: both resolutions succeeded, b's (spawned second) completed first,
\* a's last; the device plays a and now_playing is b
C1_Witness ==
    /\ Len(resolved) = 2
    /\ resolved[1].kind = "play" /\ resolved[1].handle = "b"
    /\ resolved[2].kind = "play" /\ resolved[2].handle = "a"
    /\ resolved[2].id < resolved[1].id
    /\ audio.src = "a" /\ ~audio.paused
    /\ state.now_playing = "b"
    /\ ready = <<>>

C3_SpeedFinitePositive ==
    is_finite(state.playback_speed) /\ state.playback_speed.v > 0

\* C4: when the resolution of PlayHandle(h) fails, the device (here: one that had a
\* source installed) is exactly as it was before the PlayHandle message was
\* processed: same source, same position, same playing/paused status.
C4_FailedLoadLeavesDevice ==
    (focus.kind = "play" /\ focus.done = "err" /\ focus.pre.src # None)
        => audio = focus.pre

C6_RestoredPositionAndRate ==
    (focus.kind = "set" /\ focus.done = "ok") =>
        /\ audio.src = focus.handle
        /\ audio.current_time = unwrap_or(state.elapsed, F(0))
        /\ audio.playback_rate = state.playback_speed

\* C7: in every snapshot handed to the store, elapsed was read from the device while
\* the article named by the snapshot's now_playing was the installed source (here:
\* for the reads taken with some article installed).
C7_ElapsedBelongsToNowPlaying ==
    \A t \in awaiting :
        (t.fn = "save" /\ t.snap.now_playing # None /\ t.tag # None)
            => t.tag = t.snap.now_playing

\* C8: the record an in-flight save writes is PlayerState as it was right after its
\* SaveState was processed (elapsed included), whatever has been processed since;
\* and the step that completes a save writes that record or nothing.
C8_SaveWritesSnapshot ==
    /\ [](\A t \in awaiting : t.fn = "save" =>
            \E e \in savedAt : e.id = t.id /\ saved_record(t) = e.state)
    /\ [][\A t \in awaiting : (t.fn = "save" /\ t \notin awaiting') =>
            \E e \in savedAt : /\ e.id = t.id
                               /\ (store' = store \/ store' = Stored(e.state))]_vars

\* C8 witness: a save is in flight and PlayerState has changed since its snapshot
C8_Witness ==
    \E t \in awaiting : \E e \in savedAt :
        t.fn = "save" /\ e.id = t.id /\ e.state # state
        /\ e.state.now_playing # state.now_playing

\* C9: setPositionState is called only with position, duration and rate all finite
\* and >= 0: a refresh whose readouts are not is a no-op.
C9_PositionStateValid ==
    session.position_state.set =>
        /\ is_finite(session.position_state.position) /\ session.position_state.position.v >= 0
        /\ is_finite(session.position_state.duration) /\ session.position_state.duration.v >= 0
        /\ is_finite(session.position_state.rate) /\ session.position_state.rate.v >= 0

\* C9 witness: a snapshot was pushed, and a later refresh (UpdatePlaybackSpeed with
\* a negative rate on a loaded device) pushed nothing
C9_Witness ==
    /\ session.position_state.set
    /\ audio.src # None
    /\ state.playback_speed = F(-100)
    /\ audio.playback_rate = F(-100)
    /\ session.position_state.rate # audio.playback_rate

\* C10: JumpForward and JumpBackward on a device whose duration or position is not
\* a finite number >= 0 perform no seek: the device position is unchanged.
C10_JumpSkippedWhenUnconfigured ==
    [][((Processing("JumpForward") \/ Processing("JumpBackward"))
          /\ msgs' = Tail(msgs)
          /\ ~(/\ is_finite(audio.duration) /\ ge_zero(audio.duration)
               /\ is_finite(audio.current_time) /\ ge_zero(audio.current_time)))
        => audio'.current_time = audio.current_time]_vars

\* position + offset brought into [0, duration], on the integers
Clamped(pos, off, dur) ==
    IF pos + off < 0 THEN 0 ELSE IF pos + off > dur THEN dur ELSE pos + off

\* C11: on a device with a finite duration >= 0 and a position in [0, duration], the
\* position a jump by a (finite) offset sets is max(0, min(duration, position +
\* offset)), so it lies in [0, duration]; this for jump_forward and jump_backward
\* (+10, -10) and for the offset jump of seek_to.
C11_JumpClamped ==
    (focus.done = "jump_offset" /\ ~crashed) =>
        /\ audio.current_time =
              F(Clamped(focus.pre.current_time.v, focus.arg.seekOffset.v, focus.pre.duration.v))
        /\ is_finite(audio.current_time)
        /\ audio.current_time.v >= 0
        /\ audio.current_time.v <= focus.pre.duration.v

\* C11 witness: position 5 of 100, jump backward by 10: the position is 0
C11_Witness ==
    /\ focus.kind = "jump" /\ focus.done = "jump_offset"
    /\ focus.pre.current_time = F(5) /\ focus.pre.duration = F(100)
    /\ focus.arg.seekOffset = F(-10)
    /\ audio.current_time = F(0)

\* C18: seek_to takes the time when it is present, whatever the offset: with
\* fast_seek iff fastSeek is exactly true (the device then lands on the time or on
\* the keyframe before it), with the precise set_current_time otherwise (the device
\* is at the time, held inside the article); with no time and an offset it jumps by
\* the offset, clamped to [0, duration]; with neither the device is left alone.
C18_SeekToPreference ==
    focus.kind = "seek" =>
        LET d == focus.arg
            pre == focus.pre
            at == f64_max(F(0), f64_min(pre.duration, d.seekTime))
        IN  /\ d.seekTime # NoneF =>
                  /\ focus.done = (IF d.fastSeek = "true" THEN "fast_seek"
                                                            ELSE "set_current_time")
                  /\ (focus.done = "set_current_time") => audio.current_time = at
                  /\ (focus.done = "fast_seek" /\ ~crashed) =>
                        (audio.current_time = at \/ audio.current_time.v < at.v)
            /\ (d.seekTime = NoneF /\ d.seekOffset # NoneF) =>
                  /\ focus.done = "jump_offset"
                  /\ audio.current_time =
                        F(Clamped(pre.current_time.v, d.seekOffset.v, pre.duration.v))
            /\ (d.seekTime = NoneF /\ d.seekOffset = NoneF) =>
                  /\ focus.done = "none"
                  /\ audio = pre

\* C18 witness: time 5 and offset -10 both present, fastSeek false, from position 12:
\* the precise seek put the device at 5
C18_Witness ==
    /\ focus.kind = "seek" /\ focus.done = "set_current_time"
    /\ focus.arg = [fastSeek |-> "false", seekTime |-> F(5), seekOffset |-> F(-10)]
    /\ focus.pre.current_time = F(12)
    /\ audio.current_time = F(5)

\* a step that polls the ready task at the head of the queue to its end
Polled(fn) == Ran(fn) /\ Len(ready') <= Len(ready)

\* C12: once PlayHandle(h) is processed the rendered "Now Playing" label shows h,
\* the handle in PlayerState.now_playing, also when the load of h fails later.
C12_LabelShowsNowPlaying ==
    focus.kind = "play" => (label = focus.handle /\ label = view(state))

\* C13: nothing is fatal: no message, action, tick or completion leaves the
\* controller panicked.
C13_NothingFatal == ~crashed

\* C14: the step that processes PlayHandle(h) sets now_playing to h and leaves h's
\* resolution pending; the steps that complete a resolution, with the article or
\* with an error, leave now_playing as it is.
C14_IntentRecordedImmediately ==
    /\ [][(Processing("PlayHandle") /\ msgs' = Tail(msgs)) =>
             /\ state'.now_playing = Head(msgs).handle
             /\ \E t \in awaiting' \ awaiting :
                    t.fn = "play_article_handle" /\ t.handle = Head(msgs).handle]_vars
    /\ [][(Polled("play_article_handle") \/ Polled("set_audio_source_by_handle")) =>
             state'.now_playing = state.now_playing]_vars

\* C14 witness: now_playing is b, b's resolution is still pending, and the device
\* still holds a
C14_Witness ==
    /\ state.now_playing = "b"
    /\ \E t \in awaiting : t.fn = "play_article_handle" /\ t.handle = "b"
    /\ audio.src = "a"
    /\ msgs = <<>>

\* the loads from the store still under way: the build_from_save task, pending or
\* ready, or the SetState it sent
LoadTokens ==
    Cardinality({t \in awaiting : t.fn = "build_from_save"})
    + Cardinality({i \in 1..Len(ready) : ready[i].fn = "build_from_save"})
    + Cardinality({i \in 1..Len(msgs) : msgs[i].type = "SetState"})

SetStateQueued == \E i \in 1..Len(msgs) : msgs[i].type = "SetState"

\* C16: there is one load from the store, started at construction, and it ends in
\* at most one SetState: a SetState is sent only by the load that succeeded, a load
\* that fails sends nothing and leaves PlayerState alone, and processing SetState(s)
\* makes PlayerState exactly s, whatever earlier messages had set.
C16_SetStateOnce ==
    /\ [](LoadTokens <= 1)
    /\ [][LoadTokens' <= LoadTokens]_vars
    /\ [][(~SetStateQueued /\ SetStateQueued') =>
             (Polled("build_from_save") /\ Head(ready).res = "ok")]_vars
    /\ [][(Polled("build_from_save") /\ Head(ready).res = "err") =>
             (state' = state /\ msgs' = msgs /\ LoadTokens' = 0)]_vars
    /\ [][(Processing("SetState") /\ msgs' = Tail(msgs)) =>
             (state' = Head(msgs).state /\ LoadTokens' = 0)]_vars

\* C16 witness: SetState replaced a state in which PlayHandle(b) had set now_playing
C16_Witness ==
    /\ LoadTokens = 0
    /\ focus.kind = "set"
    /\ state = [now_playing |-> "a", elapsed |-> F(5), playback_speed |-> F(150)]
    /\ \E t \in awaiting : t.fn = "play_article_handle" /\ t.handle = "b"

\* armed autosave timers plus SaveState messages queued
ChainTokens ==
    Len(timers) + Cardinality({i \in 1..Len(msgs) : msgs[i].type = "SaveState"})

Saves == {t \in awaiting : t.fn = "save"}

\* C17: once a timer registration has been rejected no autosave timer is pending and
\* no SaveState is queued, and from then on no SaveState is processed and no save is
\* issued, whatever else is processed.
C17_ChainStopsOnRejection ==
    /\ [](rejected => ChainTokens = 0)
    /\ [][rejected => (rejected' /\ nSaveState' = nSaveState /\ Saves' \subseteq Saves)]_vars

\* C17 witness: the registration of the first SaveState was rejected, and after it a
\* PlayHandle was processed and its article installed
C17_Witness ==
    /\ rejected /\ nSaveState = 1
    /\ focus.kind = "play" /\ focus.done = "ok"
    /\ audio.src = focus.handle
    /\ state.now_playing = focus.handle

\* C19: armed autosave timers plus queued SaveState messages are at most 1 in every
\* reachable state.
C19_AtMostOneAutosave == ChainTokens <= 1

\* C19 witness: after one SaveState was processed and re-armed the timer, the
\* timer fired again: its SaveState is queued and no timer is armed
C19_Witness ==
    /\ nSaveState = 1
    /\ timers = <<>>
    /\ msgs # <<>> /\ Head(msgs).type = "SaveState"

\* C20: PlayerState changes only in a step that processes a message: completions,
\* timer firings and the control-surface actions leave it as it is.
C20_StateChangesOnlyInUpdate ==
    [][state' # state => (msgs # <<>> /\ msgs' = Tail(msgs))]_vars

\* C20 witness: a resolution completed and its article plays while now_playing
\* names the other one, and a save completed
C20_Witness ==
    /\ resolved # <<>> /\ Last(resolved).handle # state.now_playing
    /\ audio.src = Last(resolved).handle /\ ~audio.paused
    /\ nSaveState >= 1 /\ store.some /\ Saves = {}

----------------------------------------------------------------------------
(* The autosave chain under fair scheduling, in a session that starts with an empty
   store and is driven by messages: the user's buttons, the timer, the completions.
   The event loop runs what it has: an armed timer fires, a queued message is
   processed, a ready task is polled.  No fairness is asked of the user or of I/O
   completions.  A panic ends the behaviour the model follows (every action is
   disabled). *)

LiveInit == Init /\ store = NoStore

LiveNext ==
    \/ \E h \in Handles : UserPlay(h)
    \/ \E type \in {"JumpForward", "JumpBackward"} : UserJump(type)
    \/ \E v \in SelectorValues : UserSelect(v)
    \/ TimerFire
    \/ UpdatePlayHandle
    \/ UpdateJump("JumpForward", F(JUMP_SIZE))
    \/ UpdateJump("JumpBackward", F(-JUMP_SIZE))
    \/ \E plays_backwards \in BOOLEAN : UpdatePlaybackSpeed(plays_backwards)
    \/ \E plays_backwards \in BOOLEAN : UpdateSetState(plays_backwards)
    \/ \E registered \in BOOLEAN : UpdateSaveState(registered)
    \/ \E t \in awaiting, ok \in BOOLEAN : WakeResolution(t, ok)
    \/ \E t \in awaiting, ok \in BOOLEAN : WakeLoadState(t, ok)
    \/ \E t \in awaiting, ok \in BOOLEAN : SaveDone(t, ok)
    \/ RunPlayArticle
    \/ RunSetSource
    \/ \E fn \in Resolutions : RunResolutionFailed(fn)
    \/ RunBuildFromSave
    \/ RunBuildFailed
    \/ \E started \in BOOLEAN : RunPlay(started)

Fairness ==
    /\ WF_vars(TimerFire)
    /\ WF_vars(UpdatePlayHandle)
    /\ WF_vars(UpdateJump("JumpForward", F(JUMP_SIZE)))
    /\ WF_vars(UpdateJump("JumpBackward", F(-JUMP_SIZE)))
    /\ WF_vars(\E plays_backwards \in BOOLEAN : UpdatePlaybackSpeed(plays_backwards))
    /\ WF_vars(\E plays_backwards \in BOOLEAN : UpdateSetState(plays_backwards))
    /\ WF_vars(\E registered \in BOOLEAN : UpdateSaveState(registered))
    /\ WF_vars(RunPlayArticle)
    /\ WF_vars(RunSetSource)
    /\ WF_vars(\E fn \in Resolutions : RunResolutionFailed(fn))
    /\ WF_vars(RunBuildFromSave)
    /\ WF_vars(RunBuildFailed)
    /\ WF_vars(\E started \in BOOLEAN : RunPlay(started))

SpecLive == LiveInit /\ [][LiveNext]_vars /\ Fairness

\* C15: the autosave chain drives itself: while no timer registration has been
\* rejected and the controller has not panicked, every count of processed SaveState
\* messages below the model's bound is followed by the next one, whatever other
\* messages are processed and whether saves and resolutions fail, complete or stay
\* pending.
C15_ChainSelfDriving ==
    \A k \in 0..(MaxTicks - 1) :
        (nSaveState = k) ~> (nSaveState = k + 1 \/ rejected \/ crashed)

\* C15 witness: the bound is reached with every registration accepted, while a save
\* failed (the store is still empty), a resolution failed and another is pending
C15_Witness ==
    /\ nSaveState = MaxTicks /\ ~rejected /\ ~crashed
    /\ Saves = {} /\ ~store.some
    /\ focus.kind = "play" /\ focus.done = "err"

====
